---- MODULE Spec2Model ----
(***************************************************************************)
(* Model of telegram_bot.py: the persistent store (state), the comment     *)
(* monitor (monitor_pages / process_page_posts) with its cursor and its    *)
(* moderation actions, and the identity watcher (check_all_uids).          *)
(*                                                                         *)
(* Encodings.  A Python dict is a TLA+ function over its keys; None is the *)
(* string None for ids and tokens.  An Optional[datetime] is an integer:   *)
(* 0 is None, an aware datetime is its instant in UTC seconds (>= 1).  A   *)
(* time string (created_time, last_comment_time) is a tuple: <<>> when it  *)
(* is missing, None or malformed, <<local, off>> for the wall clock        *)
(* seconds and the UTC offset it spells.  A comment text is the set of the *)
(* words it contains (substring containment is membership).                *)
(***************************************************************************)
EXTENDS Integers, Sequences, FiniteSets, TLC

VARIABLES
    state,      \* the global `state`: [users |-> chat id -> user record]
    disk,       \* the users the state file holds
    mon,        \* the running monitor_pages tick (its locals and position)
    chk,        \* the running check_all_uids tick
    man,        \* the running manual_check_uids handler
    now,        \* the clock now_iso() reads
    seen,       \* history: per post, the comment ids processed while watched
    lastUpd,    \* history: per post, the instant the last cursor update stored
    lock,       \* state_lock: the tasks that hold it
    tmp,        \* the temporary file next to the state file
    torn,       \* the state file holds a partial document
    task,       \* the tasks of the store's specification, step by step
    crashes,    \* how often the process has died and started again
    started,    \* how many commands and jobs have started
    feed,       \* per post, the comments posted upstream, oldest first
    dropped,    \* history: how many notifications failed to be delivered
    boot        \* the form of the state file at startup and what _load_state made of it

vars == <<state, disk, mon, chk, man, now, seen, lastUpd, lock, tmp, torn, task, crashes, started,
         feed, dropped, boot>>

monVars == <<mon, seen, lastUpd>>
uidVars == <<chk, man, now>>
ioVars == <<lock, tmp, torn, task, crashes, started, feed, dropped, boot>>

None == "None"

\* ------------------------------------------------------------------ bounds
\* Longest comment page a fetch returns (the request asks for limit = 30).
MaxPageLen == 3
\* Longest page of the executor's specification.
MaxExecPage == 2

\* ------------------------------------------------------------- dict helpers
EmptyDict == [x \in {} |-> None]
Put(f, k, v) == [x \in (DOMAIN f) \cup {k} |-> IF x = k THEN v ELSE f[x]]
Del(f, k) == [x \in (DOMAIN f) \ {k} |-> f[x]]

\* ----------------------------------------------------------- the universe
\* The tenant of the specifications with one tenant, and every chat id.
Chats == {"c1"}
Tenants == {"c1", "c2"}
PageIds == {"pg"}
PostIds == {"p1", "p2"}
PostKeys == Tenants \X PageIds \X PostIds

\* The comments the upstream feed of a post may serve.
CommentKeys == {"k1", "k2", "k3", "k4", "k5", "k6"}
Comment(k) ==
    CASE k = "k1" -> [id |-> "A", created_time |-> <<1, 0>>, message |-> {"SPAM"},
                      from |-> [id |-> "u1", name |-> "Ann"]]
      [] k = "k2" -> [id |-> "B", created_time |-> <<2, 1>>, message |-> {},
                      from |-> [id |-> None, name |-> None]]
      [] k = "k3" -> [id |-> "C", created_time |-> <<1, 0>>, message |-> {"hello"},
                      from |-> [id |-> "u2", name |-> "Bob"]]
      [] k = "k4" -> [id |-> "D", created_time |-> <<2, 0>>, message |-> {"spam"},
                      from |-> [id |-> None, name |-> None]]
      [] k = "k5" -> [id |-> None, created_time |-> <<3, 0>>, message |-> {"hello"},
                      from |-> [id |-> "u1", name |-> "Ann"]]
      [] OTHER    -> [id |-> "E", created_time |-> <<>>, message |-> {"spam"},
                      from |-> [id |-> "u2", name |-> "Bob"]]

RECURSIVE SeqsOver(_, _)
SeqsOver(S, n) ==
    IF n = 0 THEN {<<>>}
    ELSE LET shorter == SeqsOver(S, n - 1)
         IN shorter \cup {Append(s, k) : s \in {t \in shorter : Len(t) = n - 1}, k \in S}

Range(s) == {s[i] : i \in DOMAIN s}

\* The pages over the comments `keys`: distinct comments, in any order.
PagesOver(keys, n) ==
    {s \in SeqsOver(keys, n) : Cardinality(Range(s)) = Len(s)}

\* --------------------------------------------------------------- the store
DefaultAuto ==
    [like |-> TRUE, hide_keywords |-> {}, delete_keywords |-> {},
     block_keywords |-> {}, message_template |-> ""]

NewPage(page_token) == [token |-> page_token, auto |-> DefaultAuto, posts |-> EmptyDict]

NewUser == [token |-> "", uids |-> <<>>, pages |-> EmptyDict]

NewPostMeta == [last_comment_time |-> <<>>, last_comment_id |-> None, last_comment_ids |-> {}]

\* What _write_state_locked leaves in the state file: the users of `st`.
_write_state_locked(st) == st.users

\* ensure_user that stores a fresh record at every call.
ensure_user_Resets(users, chat_id) == Put(users, chat_id, NewUser)

ensure_user(users, chat_id) ==
    IF chat_id \in DOMAIN users THEN users ELSE Put(users, chat_id, NewUser)

HasPage(users, chat_id, page_id) ==
    chat_id \in DOMAIN users /\ page_id \in DOMAIN users[chat_id].pages

Watched(users, pk) ==
    HasPage(users, pk[1], pk[2]) /\ pk[3] \in DOMAIN users[pk[1]].pages[pk[2]].posts

PostMeta(users, pk) == users[pk[1]].pages[pk[2]].posts[pk[3]]

SetPosts(users, chat_id, page_id, posts) ==
    [users EXCEPT ![chat_id].pages[page_id].posts = posts]

\* ------------------------------------------------------------------- times
parse_fb_time(value) == IF value = <<>> THEN 0 ELSE value[1] - value[2]

fromisoformat(value) == IF value = <<>> THEN 0 ELSE value[1] - value[2]

\* The instant spelled in UTC but labelled with another offset.
utc_isoformat_shifted(dt) == <<dt, 1>>

utc_isoformat(dt) == <<dt, 0>>

\* ----------------------------------------------------- moderation executor
ActionNames == {"delete", "hide", "like", "block", "reply"}

lower(w) == IF w = "SPAM" THEN "spam" ELSE w

comment_matches(text, keywords) ==
    /\ text # {}
    /\ \E keyword \in keywords : keyword # "" /\ keyword \in {lower(w) : w \in text}

\* str.format(name=...): the only field a template may name is {name}.
Templates == {"", "Hi {name}", "Hi {user}"}

\* template.format(name=actor_name): it renders; or it raises one of the errors
\* the `except` names (KeyError for an unknown field, IndexError, ValueError);
\* or it raises another error (AttributeError for a field access as {name.x},
\* TypeError for {name[a]}), which leaves process_page_posts.
RaisingTemplate == "Hi {name.x}"

format(template) ==
    CASE template = "Hi {user}" -> "caught"
      [] template = RaisingTemplate -> "raised"
      [] OTHER -> "ok"

format_ok(template) == format(template) = "ok"

\* The reply step of a comment ends the tick with an error that is not caught.
Raises(comment, auto) ==
    /\ auto.message_template # ""
    /\ comment.from.id # None
    /\ format(auto.message_template) = "raised"

\* One entry of actions_taken: the action, whether an upstream call was made for
\* it, and whether it is reported as done.
Taken(action, call, ok) == [action |-> action, call |-> call, ok |-> ok]

DeleteStep(text, auto, oks) ==
    IF comment_matches(text, auto.delete_keywords)
    THEN <<Taken("delete", TRUE, oks["delete"])>>
    ELSE <<>>

\* HideStep that does not look at the outcome of the delete.
HideStep_IgnoresDeleted(text, auto, oks, deleted) ==
    IF comment_matches(text, auto.hide_keywords)
    THEN <<Taken("hide", TRUE, oks["hide"])>>
    ELSE <<>>

HideStep(text, auto, oks, deleted) ==
    IF ~deleted /\ comment_matches(text, auto.hide_keywords)
    THEN <<Taken("hide", TRUE, oks["hide"])>>
    ELSE <<>>

LikeStep(auto, oks, deleted) ==
    IF auto.like /\ ~deleted THEN <<Taken("like", TRUE, oks["like"])>> ELSE <<>>

BlockStep(text, actor_id, auto, oks) ==
    IF actor_id # None /\ comment_matches(text, auto.block_keywords)
    THEN <<Taken("block", TRUE, oks["block"])>>
    ELSE <<>>

ReplyStep(actor_id, auto, oks) ==
    IF auto.message_template # "" /\ actor_id # None
    THEN IF format_ok(auto.message_template)
         THEN <<Taken("reply", TRUE, oks["reply"])>>
         ELSE <<Taken("reply", FALSE, FALSE)>>
    ELSE <<>>

\* ActionsTaken with the block ahead of the like.
ActionsTaken_BlockFirst(comment, auto, oks) ==
    LET text == comment.message
        actor_id == comment.from.id
        del == DeleteStep(text, auto, oks)
        deleted == del # <<>> /\ del[1].ok
    IN del \o HideStep(text, auto, oks, deleted) \o BlockStep(text, actor_id, auto, oks)
           \o LikeStep(auto, oks, deleted) \o ReplyStep(actor_id, auto, oks)

\* ActionsTaken that blocks the author only of a comment that was not deleted.
ActionsTaken_BlockUnlessDeleted(comment, auto, oks) ==
    LET text == comment.message
        actor_id == comment.from.id
        del == DeleteStep(text, auto, oks)
        deleted == del # <<>> /\ del[1].ok
    IN del \o HideStep(text, auto, oks, deleted) \o LikeStep(auto, oks, deleted)
           \o (IF deleted THEN <<>> ELSE BlockStep(text, actor_id, auto, oks))
           \o ReplyStep(actor_id, auto, oks)

\* actions_taken for one new comment; oks[a] is the outcome of the upstream call
\* of action a, if it is made.
ActionsTaken(comment, auto, oks) ==
    LET text == comment.message
        actor_id == comment.from.id
        del == DeleteStep(text, auto, oks)
        deleted == del # <<>> /\ del[1].ok
    IN del \o HideStep(text, auto, oks, deleted) \o LikeStep(auto, oks, deleted)
           \o BlockStep(text, actor_id, auto, oks) \o ReplyStep(actor_id, auto, oks)

\* ------------------------------------------------------ comment classifier
\* The id set a stored cursor stands for: last_comment_ids plus last_comment_id.
StoredIds(meta) ==
    meta.last_comment_ids \cup (IF meta.last_comment_id # None THEN {meta.last_comment_id} ELSE {})

\* IsNew without the test of the id against the stored ids.
IsNew_NoIdTest(created, comment_id, last_dt, last_ids) ==
    /\ created # 0
    /\ ~(last_dt # 0 /\ created < last_dt)

\* IsNew skipping the comments at the cursor's instant as well.
IsNew_SkipEqual(created, comment_id, last_dt, last_ids) ==
    /\ created # 0
    /\ ~(last_dt # 0 /\ created <= last_dt)

\* The loop's test of one comment: neither of the three `continue`s is taken.
IsNew(created, comment_id, last_dt, last_ids) ==
    /\ created # 0
    /\ ~(last_dt # 0 /\ created < last_dt)
    /\ ~(last_dt # 0 /\ created = last_dt /\ comment_id # None /\ comment_id \in last_ids)

\* Advance that starts the id set afresh at every comment.
Advance_NoUnion(acc, created, comment_id) ==
    LET newer == acc.latest_dt = 0 \/ created > acc.latest_dt
        dt == IF newer THEN created ELSE acc.latest_dt
        tie == created = dt /\ comment_id # None
    IN [latest_dt |-> dt,
        latest_id |-> IF tie THEN comment_id ELSE acc.latest_id,
        latest_ids |-> IF tie THEN {comment_id} ELSE {}]

\* The running cursor after a new comment.
Advance(acc, created, comment_id) ==
    LET newer == acc.latest_dt = 0 \/ created > acc.latest_dt
        dt == IF newer THEN created ELSE acc.latest_dt
        ids == IF newer THEN {} ELSE acc.latest_ids
        tie == created = dt /\ comment_id # None
    IN [latest_dt |-> dt,
        latest_id |-> IF tie THEN comment_id ELSE acc.latest_id,
        latest_ids |-> IF tie THEN ids \cup {comment_id} ELSE ids]

CommentMessage(post_id, k, actions) ==
    [kind |-> "comment", post |-> post_id, key |-> k, actions |-> actions]

ErrorMessage(post_id) ==
    [kind |-> "error", post |-> post_id, key |-> None, actions |-> <<>>]

\* The body of `for comment in reversed(comments)`, from the comment at index i
\* down to the first one.
RECURSIVE CommentLoop(_, _, _, _, _, _, _, _)
CommentLoop(comments, i, post_id, last_dt, last_ids, auto, oks, acc) ==
    IF i = 0 \/ acc.raised THEN acc
    ELSE LET comment == Comment(comments[i])
             created == parse_fb_time(comment.created_time)
             next ==
                 IF IsNew(created, comment.id, last_dt, last_ids)
                 THEN IF Raises(comment, auto) THEN [acc EXCEPT !.raised = TRUE]
                      ELSE LET adv == Advance(acc, created, comment.id)
                      IN [latest_dt |-> adv.latest_dt,
                          latest_id |-> adv.latest_id,
                          latest_ids |-> adv.latest_ids,
                          messages |-> Append(acc.messages,
                              CommentMessage(post_id, comments[i],
                                             ActionsTaken(comment, auto, oks))),
                          raised |-> FALSE]
                 ELSE acc
         IN CommentLoop(comments, i - 1, post_id, last_dt, last_ids, auto, oks, next)

\* update_payload; an empty last_comment_ids stands for the key left out.
UpdatePayload(acc) ==
    [last_comment_time |-> utc_isoformat(acc.latest_dt),
     last_comment_id |-> acc.latest_id,
     last_comment_ids |-> acc.latest_ids]

\* ProcessPost that walks the page as it was delivered, first comment first.
ProcessPost_Forward(post_id, meta, comments, auto, oks) ==
    LET last_ids == StoredIds(meta)
        last_dt == fromisoformat(meta.last_comment_time)
        forward == [i \in 1..Len(comments) |-> comments[Len(comments) + 1 - i]]
        acc == CommentLoop(forward, Len(forward), post_id, last_dt, last_ids, auto, oks,
                           [latest_dt |-> last_dt, latest_id |-> meta.last_comment_id,
                            latest_ids |-> last_ids, messages |-> <<>>, raised |-> FALSE])
    IN [messages |-> acc.messages,
        has |-> acc.latest_dt # 0,
        payload |-> UpdatePayload(acc),
        raised |-> acc.raised]

\* One post of process_page_posts with a fetched, non-empty page: the messages
\* it appends and the update it records (has = FALSE: none).
ProcessPost(post_id, meta, comments, auto, oks) ==
    LET last_ids == StoredIds(meta)
        last_dt == fromisoformat(meta.last_comment_time)
        acc == CommentLoop(comments, Len(comments), post_id, last_dt, last_ids, auto, oks,
                           [latest_dt |-> last_dt, latest_id |-> meta.last_comment_id,
                            latest_ids |-> last_ids, messages |-> <<>>, raised |-> FALSE])
    IN [messages |-> acc.messages,
        has |-> acc.latest_dt # 0,
        payload |-> UpdatePayload(acc),
        raised |-> acc.raised]

\* post.update(meta) of the merge.
UpdateMeta(post, payload) ==
    [last_comment_time |-> payload.last_comment_time,
     last_comment_id |-> payload.last_comment_id,
     last_comment_ids |-> IF payload.last_comment_ids # {}
                          THEN payload.last_comment_ids
                          ELSE post.last_comment_ids]

EmptyMeta == [last_comment_time |-> <<>>, last_comment_id |-> None, last_comment_ids |-> {}]

\* ------------------------------------------------------ foreground commands
FACEBOOK_ACCESS_TOKEN == ""

\* What a handler does to the users under the lock: the users it leaves, whether
\* it called _write_state_locked, and whether it awaited its reply before it left
\* the `async with state_lock` block.
Outcome(users, wrote, replied_locked) ==
    [users |-> users, wrote |-> wrote, replied_locked |-> replied_locked]

set_token(users, chat_id, token) ==
    LET us == ensure_user(users, chat_id)
    IN Outcome([us EXCEPT ![chat_id].token = token], TRUE, FALSE)

\* add_uid that stores a fresh record for an identity it finds.
add_uid_Fresh(users, chat_id, uid, label) ==
    LET us == ensure_user(users, chat_id)
        uids == us[chat_id].uids
        fresh == [uid |-> uid, label |-> label, status |-> "unknown", summary |-> "",
                  name |-> None, last_checked |-> 0, live_video |-> FALSE]
    IN Outcome([us EXCEPT ![chat_id].uids =
                  IF uid \in {uids[i].uid : i \in DOMAIN uids}
                  THEN [i \in DOMAIN uids |-> IF uids[i].uid = uid THEN fresh ELSE uids[i]]
                  ELSE Append(uids, fresh)],
               TRUE, FALSE)

add_uid(users, chat_id, uid, label) ==
    LET us == ensure_user(users, chat_id)
        uids == us[chat_id].uids
    IN Outcome([us EXCEPT ![chat_id].uids =
                  IF uid \in {uids[i].uid : i \in DOMAIN uids}
                  THEN [i \in DOMAIN uids |->
                          IF uids[i].uid = uid THEN [uids[i] EXCEPT !.label = label]
                          ELSE uids[i]]
                  ELSE Append(uids, [uid |-> uid, label |-> label, status |-> "unknown",
                                     summary |-> "", name |-> None, last_checked |-> 0,
                                     live_video |-> FALSE])],
               TRUE, FALSE)

remove_uid(users, chat_id, uid) ==
    LET us == ensure_user(users, chat_id)
        uids == us[chat_id].uids
    IN IF uid \in {uids[i].uid : i \in DOMAIN uids}
       THEN Outcome([us EXCEPT ![chat_id].uids = SelectSeq(uids, LAMBDA m : m.uid # uid)],
                    TRUE, TRUE)
       ELSE Outcome(us, FALSE, TRUE)

\* add_page, once fetch_page_info has answered.
add_page(users, chat_id, page_id, page_token) ==
    LET us == ensure_user(users, chat_id)
        page == IF page_id \in DOMAIN us[chat_id].pages
                THEN [us[chat_id].pages[page_id] EXCEPT !.token = page_token]
                ELSE NewPage(page_token)
    IN Outcome([us EXCEPT ![chat_id].pages = Put(@, page_id, page)], TRUE, FALSE)

remove_page(users, chat_id, page_id) ==
    LET us == ensure_user(users, chat_id)
    IN IF page_id \in DOMAIN us[chat_id].pages
       THEN Outcome([us EXCEPT ![chat_id].pages = Del(@, page_id)], TRUE, TRUE)
       ELSE Outcome(us, FALSE, TRUE)

\* posts.setdefault(post_id, fresh cursor) on a stored page.
watch_post(users, chat_id, page_id, post_id) ==
    LET us == ensure_user(users, chat_id)
    IN IF page_id \notin DOMAIN us[chat_id].pages THEN Outcome(us, FALSE, TRUE)
       ELSE LET posts == us[chat_id].pages[page_id].posts
            IN Outcome(SetPosts(us, chat_id, page_id,
                          IF post_id \in DOMAIN posts THEN posts
                          ELSE Put(posts, post_id, NewPostMeta)),
                       TRUE, FALSE)

unwatch_post(users, chat_id, page_id, post_id) ==
    LET us == ensure_user(users, chat_id)
    IN IF page_id \notin DOMAIN us[chat_id].pages
          \/ post_id \notin DOMAIN us[chat_id].pages[page_id].posts
       THEN Outcome(us, FALSE, TRUE)
       ELSE Outcome(SetPosts(us, chat_id, page_id,
                       Del(us[chat_id].pages[page_id].posts, post_id)),
                    TRUE, FALSE)

\* A handler taken as one step: its block under the lock, the write included.
Handle(r) ==
    /\ state' = [users |-> r.users]
    /\ disk' = IF r.wrote THEN _write_state_locked(state') ELSE disk

AddPage(chat_id, page_id, page_token) ==
    /\ Handle(add_page(state.users, chat_id, page_id, page_token))
    /\ UNCHANGED <<monVars, uidVars, ioVars>>

AddUid(chat_id, uid, label) ==
    /\ Handle(add_uid(state.users, chat_id, uid, label))
    /\ UNCHANGED <<monVars, uidVars, ioVars>>

RemovePage(chat_id, page_id) ==
    /\ Handle(remove_page(state.users, chat_id, page_id))
    /\ seen' = [pk \in PostKeys |->
                  IF pk[1] = chat_id /\ pk[2] = page_id THEN {} ELSE seen[pk]]
    /\ UNCHANGED <<mon, lastUpd, uidVars, ioVars>>

WatchPost(chat_id, page_id, post_id) ==
    /\ Handle(watch_post(state.users, chat_id, page_id, post_id))
    /\ UNCHANGED <<monVars, uidVars, ioVars>>

UnwatchPost(chat_id, page_id, post_id) ==
    /\ Handle(unwatch_post(state.users, chat_id, page_id, post_id))
    /\ seen' = [seen EXCEPT ![<<chat_id, page_id, post_id>>] = {}]
    /\ UNCHANGED <<mon, lastUpd, uidVars, ioVars>>

\* ------------------------------------------------- the closing send loops
\* Notifications a behaviour fails to deliver at most.
MaxDropped == 2

\* A loop that sends the same notification again when its delivery failed.
AfterSend_Retry(sent, delivered) == IF delivered THEN sent + 1 ELSE sent

\* `for ... in notifications: try: await send_message(...) except Exception:
\* continue`: the loop goes on to the next notification whether the delivery
\* succeeded or raised.
AfterSend(sent, delivered) == sent + 1

\* The record of a job after one send_message of its closing loop: `failed`
\* logs the notifications whose delivery raised.
Sent(job, delivered) ==
    [job EXCEPT !.sent = AfterSend(@, delivered),
                !.failed = IF delivered THEN @ ELSE Append(@, job.sent + 1)]

\* What the sink may answer to a delivery.
Deliveries(outcomes) == {d \in outcomes : d \/ dropped < MaxDropped}

\* ------------------------------------------------------- the monitor tick
IdleMon ==
    [pc |-> "idle", users |-> EmptyDict, todo |-> {}, updates |-> EmptyDict,
     notifications |-> <<>>, sent |-> 0, failed |-> <<>>, pages |-> EmptyDict,
     wrote |-> FALSE]

\* token = page.token or user.token or FACEBOOK_ACCESS_TOKEN
TokenOf(users, pk) ==
    IF users[pk[1]].pages[pk[2]].token # "" THEN users[pk[1]].pages[pk[2]].token
    ELSE IF users[pk[1]].token # "" THEN users[pk[1]].token
    ELSE FACEBOOK_ACCESS_TOKEN

\* The posts a tick started on the snapshot `users` visits.
PostsToVisit(users) == {pk \in PostKeys : Watched(users, pk) /\ TokenOf(users, pk) # ""}

\* monitor_pages up to its first upstream request: the snapshot.
MonSnapshot ==
    /\ mon.pc = "idle"
    /\ state.users # EmptyDict
    /\ mon' = [IdleMon EXCEPT !.pc = "fetch", !.users = state.users,
                              !.todo = PostsToVisit(state.users)]
    /\ UNCHANGED <<state, disk, seen, lastUpd, uidVars, ioVars>>

FetchFailures == {"timeout", "client_error", "error"}

\* The ids of the comments the messages `msgs` report for the post pk.
ProcessedIds(msgs, pk) ==
    {Comment(msgs[i].key).id : i \in {j \in DOMAIN msgs : msgs[j].kind = "comment" /\ msgs[j].post = pk[3]}}
        \ {None}

\* A fetch that fails and is answered by a cursor update that clears the cursor.
FailedFetch_ClearsCursor(post_id) ==
    [messages |-> <<ErrorMessage(post_id)>>, has |-> TRUE, payload |-> NewPostMeta,
     raised |-> FALSE]

\* A fetch that times out, fails or is answered by an error: its message, and
\* `continue`.
FailedFetch(post_id) ==
    [messages |-> <<ErrorMessage(post_id)>>, has |-> FALSE, payload |-> EmptyMeta,
     raised |-> FALSE]

\* Messages that all go to the first tenant.
Addressed_ToFirst(chat_id, messages) ==
    [i \in DOMAIN messages |-> [chat |-> "c1"] @@ messages[i]]

\* notifications.append((chat_id, message)) for the messages of a page.
Addressed(chat_id, messages) ==
    [i \in DOMAIN messages |-> [chat |-> chat_id] @@ messages[i]]

\* One post of the tick: the fetch of its comments and what follows it.  `answers`
\* are the answers the fetch may get: a failure, or the page in "data" (which
\* may be empty).  An error that leaves process_page_posts leaves monitor_pages
\* too: the tick ends with its updates and notifications.
MonPost(pk, answers, okset) ==
    /\ mon.pc = "fetch"
    /\ pk \in mon.todo
    /\ \E answer \in answers, oks \in okset :
         LET page == mon.users[pk[1]].pages[pk[2]]
             r == IF answer.kind \in FetchFailures THEN FailedFetch(pk[3])
                  ELSE IF answer.data = <<>>
                  THEN [messages |-> <<>>, has |-> FALSE, payload |-> EmptyMeta,
                        raised |-> FALSE]
                  ELSE ProcessPost(pk[3], page.posts[pk[3]], answer.data, page.auto, oks)
         IN /\ mon' = IF r.raised THEN IdleMon
                      ELSE [mon EXCEPT
                         !.todo = @ \ {pk},
                         !.notifications = @ \o Addressed(pk[1], r.messages),
                         !.updates = IF r.has THEN Put(@, pk, r.payload) ELSE @,
                         !.pages = Put(@, pk, answer)]
            /\ seen' = IF Watched(state.users, pk)
                       THEN [seen EXCEPT ![pk] = @ \cup ProcessedIds(r.messages, pk)]
                       ELSE seen
    /\ UNCHANGED <<state, disk, lastUpd, uidVars, ioVars>>

\* The merge loop under the lock, one update applied to `users`.
MergeOne(users, pk, meta) ==
    LET us == ensure_user(users, pk[1])
    IN IF pk[2] \notin DOMAIN us[pk[1]].pages THEN us
       ELSE LET posts == us[pk[1]].pages[pk[2]].posts
                post == IF pk[3] \in DOMAIN posts THEN posts[pk[3]] ELSE EmptyMeta
            IN SetPosts(us, pk[1], pk[2], Put(posts, pk[3], UpdateMeta(post, meta)))

RECURSIVE MergeAll(_, _, _)
MergeAll(users, updates, left) ==
    IF left = {} THEN users
    ELSE LET pk == CHOOSE x \in left : TRUE
         IN MergeAll(MergeOne(users, pk, updates[pk]), updates, left \ {pk})

\* The updates of the tick that find their page: these set `changed`.
Applied(users, updates) ==
    {pk \in DOMAIN updates : HasPage(users, pk[1], pk[2])}

\* monitor_pages after the last post: `if updates:` the merge and the write.
MonMerge ==
    /\ mon.pc = "fetch"
    /\ mon.todo = {}
    /\ LET applied == Applied(state.users, mon.updates)
       IN /\ state' = [users |-> MergeAll(state.users, mon.updates, DOMAIN mon.updates)]
          /\ disk' = IF applied # {} THEN _write_state_locked(state') ELSE disk
          /\ mon' = [mon EXCEPT !.pc = "send", !.wrote = applied # {}]
          /\ lastUpd' = [pk \in PostKeys |->
                           IF pk \in applied
                           THEN fromisoformat(mon.updates[pk].last_comment_time)
                           ELSE lastUpd[pk]]
    /\ UNCHANGED <<seen, uidVars, ioVars>>

\* One send_message of the closing loop (mon.sent counts them); a failure is
\* swallowed.
MonSend(outcomes) ==
    /\ mon.pc = "send"
    /\ mon.sent < Len(mon.notifications)
    /\ \E delivered \in Deliveries(outcomes) :
         /\ mon' = Sent(mon, delivered)
         /\ dropped' = IF delivered THEN dropped ELSE dropped + 1
    /\ UNCHANGED <<state, disk, seen, lastUpd, uidVars, lock, tmp, torn, task, crashes,
                   started, feed, boot>>

MonDone ==
    /\ mon.pc = "send"
    /\ mon.sent = Len(mon.notifications)
    /\ mon' = IdleMon
    /\ UNCHANGED <<state, disk, seen, lastUpd, uidVars, ioVars>>

\* The tick ends between two posts without its merge: an exception that
\* process_page_posts does not catch leaves monitor_pages (resp.json() on a body
\* that is not JSON, template.format on a field access), or the job is cancelled.
MonAbort ==
    /\ mon.pc = "fetch"
    /\ mon.pages # EmptyDict
    /\ mon.todo # {}
    /\ mon' = IdleMon
    /\ UNCHANGED <<state, disk, seen, lastUpd, uidVars, ioVars>>

\* ------------------------------------------------------ the upstream feed
\* The comments request asks for one page of "limit" comments (30 in the
\* source), newest first, and the tick reads no second page.
MaxFeedPage == 2

Reverse(s) == [i \in 1..Len(s) |-> s[Len(s) + 1 - i]]

\* "data" of GET {post_id}/comments over the comments `posted`, oldest first.
comments_page(posted) ==
    IF Len(posted) <= MaxFeedPage THEN Reverse(posted)
    ELSE Reverse(SubSeq(posted, Len(posted) - MaxFeedPage + 1, Len(posted)))

\* The comments a visitor may post: each has an id and a time that parses.
FeedKeys == {"k1", "k2", "k3", "k4"}

\* A visitor posts the comment k on the post pk, no earlier than the comments
\* the post has.
Emit(pk, k) ==
    /\ k \notin Range(feed[pk])
    /\ \A j \in Range(feed[pk]) :
         parse_fb_time(Comment(j).created_time) <= parse_fb_time(Comment(k).created_time)
    /\ feed' = [feed EXCEPT ![pk] = Append(@, k)]
    /\ UNCHANGED <<state, disk, mon, chk, man, now, seen, lastUpd, lock, tmp, torn, task,
                   crashes, started, dropped, boot>>

\* ------------------------------------------------------ identity watcher
\* user["uids"] is a sequence of identity records, in the order of the dict.
NewUidMeta(uid, label) ==
    [uid |-> uid, label |-> label, status |-> "unknown", summary |-> "", name |-> None,
     last_checked |-> 0, live_video |-> FALSE]

UidsOf(uids) == {uids[i].uid : i \in DOMAIN uids}

\* What the two requests of fetch_uid_status may get: the identity request times
\* out, fails, returns an error with a code, or answers; then the live probe
\* finds no video, a video that is live (with or without a viewer count), one
\* that has ended, an error, or times out.
UidAnswer(kind, code, probe) == [kind |-> kind, code |-> code, probe |-> probe]

Probes == {"none", "live", "live_views", "ended", "error", "timeout"}

AllUidAnswers ==
    {UidAnswer("timeout", 0, "none"), UidAnswer("client_error", 0, "none")}
        \cup {UidAnswer("error", c, "none") : c \in {190, 803, 200, 368, 1}}
        \cup {UidAnswer("ok", 0, p) : p \in Probes}

UidResult(status, summary, name, checked_at, live_video) ==
    [status |-> status, summary |-> summary, name |-> name, checked_at |-> checked_at,
     live_video |-> live_video]

fetch_uid_status(answer, checked_at) ==
    IF answer.kind = "timeout" THEN UidResult("error", "timeout", None, checked_at, FALSE)
    ELSE IF answer.kind = "client_error"
    THEN UidResult("error", "connection", None, checked_at, FALSE)
    ELSE IF answer.kind = "error"
    THEN IF answer.code = 190
         THEN UidResult("token_error", "token: message", None, checked_at, FALSE)
         ELSE IF answer.code \in {803, 200, 368}
         THEN UidResult("die", "message", None, checked_at, FALSE)
         ELSE UidResult("error", "message", None, checked_at, FALSE)
    ELSE IF answer.probe = "live_views"
    THEN UidResult("live", "streaming (views)", "Name", checked_at, TRUE)
    ELSE IF answer.probe = "live"
    THEN UidResult("live", "streaming", "Name", checked_at, TRUE)
    ELSE IF answer.probe \in {"error", "timeout"}
    THEN UidResult("live", "no live status", "Name", checked_at, FALSE)
    ELSE UidResult("live", "active", "Name", checked_at, FALSE)

\* The loop over a tenant's identities ends at this result, never.
StopsLoop_Never(res) == FALSE

\* `if res.get("status") == "token_error": break`
StopsLoop(res) == res.status = "token_error"

\* The diff rule, always true.
Differs_Always(meta, res) == TRUE

\* The diff rule of check_all_uids.
Differs(meta, res) == meta.status # res.status \/ meta.summary # res.summary

\* meta.update(...) of apply_uid_results.
ApplyResult(meta, res) ==
    [meta EXCEPT !.status = res.status,
                 !.summary = res.summary,
                 !.name = IF res.name # None THEN res.name ELSE meta.name,
                 !.last_checked = res.checked_at,
                 !.live_video = res.live_video]

\* apply_uid_results under the lock: the users after it, and `changed`.
apply_uid_results(users, chat_id, results) ==
    LET us == ensure_user(users, chat_id)
        uids == us[chat_id].uids
        hit == {i \in DOMAIN uids : uids[i].uid \in DOMAIN results}
    IN [users |-> [us EXCEPT ![chat_id].uids =
                     [i \in DOMAIN uids |->
                        IF i \in hit THEN ApplyResult(uids[i], results[uids[i].uid])
                        ELSE uids[i]]],
        changed |-> \E i \in hit : Differs(uids[i], results[uids[i].uid])]

\* token = user.token or FACEBOOK_ACCESS_TOKEN
UserToken(user) == IF user.token # "" THEN user.token ELSE FACEBOOK_ACCESS_TOKEN

\* The order in which a loop over the users meets the chat ids.
ChatOrder == <<"c1", "c2">>

\* The tenants a tick visits: those with a token and identities.
ChatsToVisit(users) ==
    SelectSeq(ChatOrder, LAMBDA c :
        c \in DOMAIN users /\ UserToken(users[c]) # "" /\ users[c].uids # <<>>)

IdleChk ==
    [pc |-> "idle", users |-> EmptyDict, plan |-> <<>>, ci |-> 0, ui |-> 0,
     updates |-> EmptyDict, applied |-> 0, notifications |-> <<>>, sent |-> 0,
     failed |-> <<>>]

UidNotice(chat_id, kind, uid) == [chat |-> chat_id, kind |-> kind, uid |-> uid]

\* check_all_uids up to its first request: the snapshot.
ChkSnapshot ==
    /\ chk.pc = "idle"
    /\ state.users # EmptyDict
    /\ LET plan == ChatsToVisit(state.users)
       IN chk' = [IdleChk EXCEPT !.users = state.users, !.plan = plan,
                    !.pc = IF plan = <<>> THEN "send" ELSE "scan",
                    !.ci = 1, !.ui = 1]
    /\ UNCHANGED <<state, disk, man, now, monVars, ioVars>>

\* One identity of the scan: the request, user_updates, the notification, and
\* the way on: the tenant's next identity, the next tenant, or the merges.
ChkFetch(answers, budget) ==
    /\ chk.pc = "scan"
    /\ now < budget
    /\ \E answer \in answers :
         LET chat_id == chk.plan[chk.ci]
             uids == chk.users[chat_id].uids
             meta == uids[chk.ui]
             res == fetch_uid_status(answer, now + 1)
             old == IF chat_id \in DOMAIN chk.updates THEN chk.updates[chat_id]
                    ELSE EmptyDict
             notice == IF res.status = "token_error"
                       THEN <<UidNotice(chat_id, "token_error", meta.uid)>>
                       ELSE IF Differs(meta, res)
                       THEN <<UidNotice(chat_id, "changed", meta.uid)>>
                       ELSE <<>>
             last == StopsLoop(res) \/ chk.ui = Len(uids)
         IN chk' = [chk EXCEPT
                      !.updates = Put(@, chat_id, Put(old, meta.uid, res)),
                      !.notifications = @ \o notice,
                      !.ui = IF last THEN 1 ELSE @ + 1,
                      !.ci = IF last THEN @ + 1 ELSE @,
                      !.pc = IF last /\ chk.ci = Len(chk.plan) THEN "apply" ELSE "scan"]
    /\ now' = now + 1
    /\ UNCHANGED <<state, disk, man, monVars, ioVars>>

\* One apply_uid_results of the tick, for the next tenant with updates.
ChkApply ==
    /\ chk.pc = "apply"
    /\ LET chat_id == chk.plan[chk.applied + 1]
           r == apply_uid_results(state.users, chat_id, chk.updates[chat_id])
       IN /\ state' = [users |-> r.users]
          /\ disk' = IF r.changed THEN _write_state_locked(state') ELSE disk
          /\ chk' = [chk EXCEPT !.applied = @ + 1,
                                !.pc = IF chk.applied + 1 = Len(chk.plan) THEN "send"
                                       ELSE "apply"]
    /\ UNCHANGED <<man, now, monVars, ioVars>>

\* One send_message of the tick's closing loop; a failure is swallowed.
ChkSend(outcomes) ==
    /\ chk.pc = "send"
    /\ chk.sent < Len(chk.notifications)
    /\ \E delivered \in Deliveries(outcomes) :
         /\ chk' = Sent(chk, delivered)
         /\ dropped' = IF delivered THEN dropped ELSE dropped + 1
    /\ UNCHANGED <<state, disk, man, now, monVars, lock, tmp, torn, task, crashes, started,
                   feed, boot>>

ChkDone ==
    /\ chk.pc = "send"
    /\ chk.sent = Len(chk.notifications)
    /\ chk' = IdleChk
    /\ UNCHANGED <<state, disk, man, now, monVars, ioVars>>

IdleMan ==
    [pc |-> "idle", chat |-> None, selected |-> <<>>, ui |-> 0, results |-> EmptyDict]

\* What /checkuid may select: every identity, or the one it names.
Selections(uids) == {[i \in DOMAIN uids |-> uids[i].uid]} \cup {<<u>> : u \in UidsOf(uids)}

\* manual_check_uids up to run_uid_checks: the snapshot, the selection, the token.
ManStart(chat_id) ==
    /\ man.pc = "idle"
    /\ chat_id \in DOMAIN state.users
    /\ state.users[chat_id].uids # <<>>
    /\ UserToken(state.users[chat_id]) # ""
    /\ \E selected \in Selections(state.users[chat_id].uids) :
         man' = [IdleMan EXCEPT !.pc = "fetch", !.chat = chat_id, !.selected = selected,
                                !.ui = 1]
    /\ UNCHANGED <<state, disk, chk, now, monVars, ioVars>>

\* One identity of run_uid_checks.
ManFetch(answers, budget) ==
    /\ man.pc = "fetch"
    /\ now < budget
    /\ \E answer \in answers :
         LET uid == man.selected[man.ui]
             res == fetch_uid_status(answer, now + 1)
             last == StopsLoop(res) \/ man.ui = Len(man.selected)
         IN man' = [man EXCEPT !.results = Put(@, uid, res),
                               !.ui = IF last THEN @ ELSE @ + 1,
                               !.pc = IF last THEN "apply" ELSE "fetch"]
    /\ now' = now + 1
    /\ UNCHANGED <<state, disk, chk, monVars, ioVars>>

\* apply_uid_results of the manual check, and its reply.
ManApply ==
    /\ man.pc = "apply"
    /\ LET r == apply_uid_results(state.users, man.chat, man.results)
       IN /\ state' = [users |-> r.users]
          /\ disk' = IF r.changed THEN _write_state_locked(state') ELSE disk
    /\ man' = IdleMan
    /\ UNCHANGED <<chk, now, monVars, ioVars>>

\* The calls of the executor all succeed, all fail.
AllOk == [a \in ActionNames |-> TRUE]
AllFail == [a \in ActionNames |-> FALSE]

\* ------------------------------------------------ the store, step by step
\* The tasks of the event loop that reach the store: the command handler (the
\* application handles one update at a time), and the two repeating jobs.
Tasks == {"handler", "chk", "mon"}

\* What a task carries: the chat, page, post, identity and token of a command,
\* the results of a check, the updates of a monitor tick.
NoArg ==
    [chat |-> None, page |-> None, post |-> None, uid |-> None, token |-> "",
     results |-> EmptyDict, updates |-> EmptyDict]

\* A task does `op`: pc is where it stands, users its snapshot, dirty whether its
\* block under the lock changed the state, reply_locked whether that block
\* awaits its reply.
IdleTask ==
    [pc |-> "idle", op |-> None, arg |-> NoArg, users |-> EmptyDict, dirty |-> FALSE,
     reply_locked |-> FALSE]

\* No temporary file.
NoTmp == [exists |-> FALSE, complete |-> FALSE, users |-> EmptyDict]

\* Where a task runs without an await: no other task of the event loop runs
\* until it reaches one.
SyncPcs == {"locked", "write", "writing", "rename", "release"}

MayRun(t) == \A u \in Tasks \ {t} : task[u].pc \notin SyncPcs

\* A lock that lets every task in.
CanAcquire_Always(holders) == TRUE

\* asyncio.Lock: acquired when no task holds it.
CanAcquire(holders) == holders = {}

\* The document written straight into the state file.
WriteTarget_StateFile == "file"

\* tmp = STATE_FILE.with_suffix(".tmp"): the document is written to it.
WriteTarget == "tmp"

\* What _load_state makes of the state file: a missing file is the empty
\* document, a document that does not parse gives the empty state.
_load_state(file, partial) == IF partial THEN EmptyDict ELSE file

\* The forms of the state file at startup: no file; a file that cannot be read;
\* text that is not JSON; a JSON number, null or boolean; a JSON list without
\* and with the string "users" in it; a JSON string that contains "users"; an
\* object without the key "users"; an object whose "users" is null, a list or a
\* number; an object whose "users" is a mapping.
FileForms ==
    {"absent", "unreadable", "not_json", "scalar", "list", "list_with_users",
     "string_with_users", "object_without_users", "users_not_mapping", "users_mapping"}

\* What _load_state leaves in `state`: "file" for the document as it is, with a
\* users mapping; "empty" for {"users": {}}; "as_is" for a document kept as it
\* is that has no users mapping.  `"users" not in state` is all the test there
\* is on a parsed document: it raises TypeError on a scalar (caught), and it is
\* false for a list or a string that holds "users" and for any object with the
\* key.
Loaded(form) ==
    CASE form = "users_mapping" -> "file"
      [] form \in {"list_with_users", "string_with_users", "users_not_mapping"} -> "as_is"
      [] OTHER -> "empty"

Booted == [form |-> "users_mapping", store |-> "file", raised |-> FALSE]

\* on_startup: _load_state reads the state file.
Startup ==
    /\ boot.store = "unloaded"
    /\ boot' = [boot EXCEPT !.store = Loaded(boot.form)]
    /\ state' = [users |-> IF Loaded(boot.form) = "file" THEN disk ELSE EmptyDict]
    /\ UNCHANGED <<disk, mon, chk, man, now, seen, lastUpd, lock, tmp, torn, task, crashes,
                   started, feed, dropped>>

\* A command on a store kept as it is: ensure_user raises AttributeError on
\* state.setdefault or users.setdefault, and the handler ends.
CommandRaises ==
    /\ boot.store = "as_is"
    /\ boot' = [boot EXCEPT !.raised = TRUE]
    /\ UNCHANGED <<state, disk, mon, chk, man, now, seen, lastUpd, lock, tmp, torn, task,
                   crashes, started, feed, dropped>>

\* The block of a task under the lock.
Effect(op, a, users) ==
    CASE op = "set_token" -> set_token(users, a.chat, a.token)
      [] op = "add_uid" -> add_uid(users, a.chat, a.uid, "")
      [] op = "remove_uid" -> remove_uid(users, a.chat, a.uid)
      [] op = "add_page" -> add_page(users, a.chat, a.page, a.token)
      [] op = "remove_page" -> remove_page(users, a.chat, a.page)
      [] op = "watch_post" -> watch_post(users, a.chat, a.page, a.post)
      [] op = "unwatch_post" -> unwatch_post(users, a.chat, a.page, a.post)
      [] op = "apply_uid_results" ->
            LET r == apply_uid_results(users, a.chat, a.results)
            IN Outcome(r.users, r.changed, FALSE)
      [] op = "merge" ->
            Outcome(MergeAll(users, a.updates, DOMAIN a.updates),
                    Applied(users, a.updates) # {}, FALSE)
      [] OTHER -> Outcome(users, FALSE, FALSE)

\* The commands of SpecStore: one of each shape of block.
HandlerOps == {"set_token", "add_uid", "remove_uid", "add_page", "watch_post"}

StoreRest == UNCHANGED <<mon, chk, man, seen, lastUpd, feed, dropped, boot>>

\* A command arrives: the handler runs up to its first await, the verification
\* of the page for add_page, the lock for the others.
StartHandler(op, chat_id, limit) ==
    /\ task["handler"].pc = "idle"
    /\ MayRun("handler")
    /\ started < limit
    /\ started' = started + 1
    /\ task' = [task EXCEPT !["handler"] =
                  [IdleTask EXCEPT !.op = op,
                                   !.pc = IF op = "add_page" THEN "net" ELSE "acquire",
                                   !.arg = [NoArg EXCEPT !.chat = chat_id, !.page = "pg",
                                                         !.post = "p1", !.uid = "u1",
                                                         !.token = "tok"]]]
    /\ UNCHANGED <<state, disk, now, lock, tmp, torn, crashes>>
    /\ StoreRest

\* A repeating job starts: snapshot_users.
StartJob(t, limit) ==
    /\ t \in {"chk", "mon"}
    /\ task[t].pc = "idle"
    /\ MayRun(t)
    /\ started < limit
    /\ started' = started + 1
    /\ task' = [task EXCEPT ![t] = [IdleTask EXCEPT !.op = "snapshot_users", !.pc = "acquire"]]
    /\ UNCHANGED <<state, disk, now, lock, tmp, torn, crashes>>
    /\ StoreRest

\* `async with state_lock`.
Acquire(t) ==
    /\ task[t].pc = "acquire"
    /\ MayRun(t)
    /\ CanAcquire(lock)
    /\ lock' = lock \cup {t}
    /\ task' = [task EXCEPT ![t].pc = "locked"]
    /\ UNCHANGED <<state, disk, now, tmp, torn, crashes, started>>
    /\ StoreRest

\* The block under the lock up to _write_state_locked, its await or its end.
Mutate(t) ==
    /\ task[t].pc = "locked"
    /\ LET r == Effect(task[t].op, task[t].arg, state.users)
       IN /\ state' = [users |-> r.users]
          /\ task' = [task EXCEPT
                        ![t].pc = IF r.wrote THEN "write"
                                  ELSE IF r.replied_locked THEN "reply_locked"
                                  ELSE "release",
                        ![t].users = IF task[t].op = "snapshot_users" THEN state.users ELSE @,
                        ![t].dirty = r.users # state.users,
                        ![t].reply_locked = r.replied_locked]
    /\ UNCHANGED <<disk, now, lock, tmp, torn, crashes, started>>
    /\ StoreRest

\* _write_state_locked: write_text opens its target and truncates it.
WriteOpen(t) ==
    /\ task[t].pc = "write"
    /\ IF WriteTarget = "tmp"
       THEN /\ tmp' = [exists |-> TRUE, complete |-> FALSE, users |-> state.users]
            /\ UNCHANGED torn
       ELSE /\ torn' = TRUE
            /\ UNCHANGED tmp
    /\ task' = [task EXCEPT ![t].pc = "writing"]
    /\ UNCHANGED <<state, disk, now, lock, crashes, started>>
    /\ StoreRest

\* _write_state_locked: write_text has written the whole document.
WriteClose(t) ==
    /\ task[t].pc = "writing"
    /\ IF WriteTarget = "tmp"
       THEN /\ tmp' = [tmp EXCEPT !.complete = TRUE]
            /\ UNCHANGED <<disk, torn>>
       ELSE /\ disk' = state.users
            /\ torn' = FALSE
            /\ UNCHANGED tmp
    /\ task' = [task EXCEPT ![t].pc = "rename"]
    /\ UNCHANGED <<state, now, lock, crashes, started>>
    /\ StoreRest

\* _write_state_locked: tmp.replace(STATE_FILE).
Rename(t) ==
    /\ task[t].pc = "rename"
    /\ IF WriteTarget = "tmp"
       THEN /\ disk' = tmp.users
            /\ tmp' = NoTmp
       ELSE UNCHANGED <<disk, tmp>>
    /\ task' = [task EXCEPT ![t].pc = IF task[t].reply_locked THEN "reply_locked"
                                      ELSE "release"]
    /\ UNCHANGED <<state, now, lock, torn, crashes, started>>
    /\ StoreRest

\* The reply awaited inside the block has been sent.
ReplyLocked(t) ==
    /\ task[t].pc = "reply_locked"
    /\ MayRun(t)
    /\ task' = [task EXCEPT ![t].pc = "release"]
    /\ UNCHANGED <<state, disk, now, lock, tmp, torn, crashes, started>>
    /\ StoreRest

\* The end of the block: the lock is released and the task goes on, the handler
\* to its reply, a job from its snapshot to its requests.
Release(t) ==
    /\ task[t].pc = "release"
    /\ lock' = lock \ {t}
    /\ task' = [task EXCEPT ![t].pc =
                  IF task[t].op = "snapshot_users"
                  THEN (IF task[t].users = EmptyDict THEN "idle" ELSE "net")
                  ELSE IF task[t].reply_locked THEN "idle"
                  ELSE "reply",
                            ![t].op = IF task[t].op = "snapshot_users" /\ task[t].users = EmptyDict
                                      THEN None ELSE @]
    /\ UNCHANGED <<state, disk, now, tmp, torn, crashes, started>>
    /\ StoreRest

\* The reply of a handler, the messages of a job: sent, the task ends.
Reply(t) ==
    /\ task[t].pc = "reply"
    /\ MayRun(t)
    /\ task' = [task EXCEPT ![t] = IdleTask]
    /\ UNCHANGED <<state, disk, now, lock, tmp, torn, crashes, started>>
    /\ StoreRest

\* fetch_page_info of add_page has answered: the page is stored, or the handler
\* replies that it cannot reach it.
PageInfo(ok) ==
    /\ task["handler"].pc = "net"
    /\ MayRun("handler")
    /\ task' = [task EXCEPT !["handler"].pc = IF ok THEN "acquire" ELSE "reply"]
    /\ UNCHANGED <<state, disk, now, lock, tmp, torn, crashes, started>>
    /\ StoreRest

\* The requests of a check_all_uids tick have answered: the first tenant's
\* results go to apply_uid_results.
UidsChecked(answers, budget) ==
    /\ task["chk"].pc = "net"
    /\ MayRun("chk")
    /\ LET plan == ChatsToVisit(task["chk"].users)
       IN IF plan = <<>>
          THEN /\ task' = [task EXCEPT !["chk"] = IdleTask]
               /\ UNCHANGED now
          ELSE /\ now < budget
               /\ \E answer \in answers :
                    LET chat_id == plan[1]
                        meta == task["chk"].users[chat_id].uids[1]
                        res == fetch_uid_status(answer, now + 1)
                    IN task' = [task EXCEPT
                                  !["chk"].op = "apply_uid_results",
                                  !["chk"].pc = "acquire",
                                  !["chk"].arg = [NoArg EXCEPT !.chat = chat_id,
                                                    !.results = Put(EmptyDict, meta.uid, res)]]
               /\ now' = now + 1
    /\ UNCHANGED <<state, disk, lock, tmp, torn, crashes, started>>
    /\ StoreRest

\* The feeds of a monitor_pages tick have answered, each with the comment k1:
\* `if updates:` the merge, and then the messages.
PostsFetched ==
    /\ task["mon"].pc = "net"
    /\ MayRun("mon")
    /\ LET users == task["mon"].users
           got == [pk \in PostsToVisit(users) |->
                     ProcessPost(pk[3], PostMeta(users, pk), <<"k1">>,
                                 users[pk[1]].pages[pk[2]].auto, AllOk)]
           updates == [pk \in {x \in DOMAIN got : got[x].has} |-> got[pk].payload]
       IN task' = [task EXCEPT
                     !["mon"].op = IF DOMAIN updates # {} THEN "merge" ELSE @,
                     !["mon"].pc = IF DOMAIN updates # {} THEN "acquire" ELSE "reply",
                     !["mon"].arg = [NoArg EXCEPT !.updates = updates]]
    /\ UNCHANGED <<state, disk, now, lock, tmp, torn, crashes, started>>
    /\ StoreRest

\* The process dies, wherever its tasks stand, and starts again: the files stay
\* as they are, the memory is what _load_state reads.
Crash(limit) ==
    /\ crashes < limit
    /\ crashes' = crashes + 1
    /\ state' = [users |-> _load_state(disk, torn)]
    /\ lock' = {}
    /\ task' = [t \in Tasks |-> IdleTask]
    /\ UNCHANGED <<disk, now, tmp, torn, started>>
    /\ StoreRest

\* --------------------------------------------------------- specifications
Answer(kind, data) == [kind |-> kind, data |-> data]

AnswersOver(keys, n) ==
    {Answer(f, <<>>) : f \in FetchFailures} \cup {Answer("ok", s) : s \in PagesOver(keys, n)}

\* The tick of monitor_pages.  The job queue runs one instance of a repeating
\* job at a time, so a tick starts only when the one before has ended.
TickSends(answers, okset, outcomes) ==
    \/ MonSnapshot
    \/ \E pk \in PostKeys : MonPost(pk, answers, okset)
    \/ MonMerge
    \/ MonSend(outcomes)
    \/ MonDone

\* The tick when every notification is delivered.
Tick(answers, okset) == TickSends(answers, okset, {TRUE})

\* Nothing runs, and nothing has run.
IdleJobs ==
    /\ mon = IdleMon
    /\ chk = IdleChk
    /\ man = IdleMan
    /\ now = 0
    /\ seen = [pk \in PostKeys |-> {}]
    /\ lastUpd = [pk \in PostKeys |-> 0]
    /\ lock = {}
    /\ tmp = NoTmp
    /\ torn = FALSE
    /\ task = [t \in Tasks |-> IdleTask]
    /\ crashes = 0
    /\ started = 0
    /\ feed = [pk \in PostKeys |-> <<>>]
    /\ dropped = 0

\* Nothing runs, and _load_state has read a well-formed state file.
IdleRest == IdleJobs /\ boot = Booted

\* Spec: the tick against the foreground commands on pages and posts.
RaceKeys == {"k1", "k2", "k4", "k5"}
RacePosts == {pk \in PostKeys : pk[1] \in Chats /\ pk[3] = "p1"}

Init ==
    /\ state = [users |-> EmptyDict]
    /\ disk = EmptyDict
    /\ IdleRest

Next ==
    \/ \E c \in Chats, p \in PageIds : AddPage(c, p, "tok")
    \/ \E c \in Chats, p \in PageIds : RemovePage(c, p)
    \/ \E pk \in RacePosts : WatchPost(pk[1], pk[2], pk[3])
    \/ \E pk \in RacePosts : UnwatchPost(pk[1], pk[2], pk[3])
    \/ Tick(AnswersOver(RaceKeys, MaxPageLen), {AllOk, AllFail})

Spec == Init /\ [][Next]_vars

\* A store with one page under the policy `auto` and `posts` under watch, as
\* add_page, the policy commands and watch_post leave it.
StoreOf(auto, posts) ==
    [users |-> [c \in Chats |->
        [token |-> "", uids |-> <<>>,
         pages |-> [p \in PageIds |->
            [token |-> "tok", auto |-> auto, posts |-> [q \in posts |-> NewPostMeta]]]]]]

StoreWith(auto) == StoreOf(auto, {"p1"})

\* SpecFeed: ticks alone, over every kind of comment.
InitFeed ==
    /\ state = StoreWith(DefaultAuto)
    /\ disk = state.users
    /\ IdleRest

NextFeed == Tick(AnswersOver(CommentKeys, MaxPageLen), {AllOk, AllFail})

SpecFeed == InitFeed /\ [][NextFeed]_vars

\* SpecExec: ticks alone, on short pages, under every policy and every outcome
\* of the upstream calls.
Policies ==
    [like : BOOLEAN, hide_keywords : {{}, {"spam"}}, delete_keywords : {{}, {"spam"}},
     block_keywords : {{}, {"spam"}}, message_template : Templates]

ExecKeys == {"k1", "k2", "k4"}

InitExec ==
    /\ \E auto \in Policies : state = StoreWith(auto)
    /\ disk = state.users
    /\ IdleRest

NextExec == Tick(AnswersOver(ExecKeys, MaxExecPage), [ActionNames -> BOOLEAN])

SpecExec == InitExec /\ [][NextExec]_vars

\* A store of tenants with a token and identities as add_uid leaves them.
UidStore(uidsOf) ==
    [users |-> [c \in DOMAIN uidsOf |->
        [token |-> "tok", pages |-> EmptyDict,
         uids |-> [i \in DOMAIN uidsOf[c] |-> NewUidMeta(uidsOf[c][i], "")]]]]

\* The answers the watcher's specifications draw from: the identity is live, is
\* live and streaming, is gone, or the token is refused.
SomeUidAnswers ==
    {UidAnswer("ok", 0, "none"), UidAnswer("ok", 0, "live"), UidAnswer("error", 803, "none"),
     UidAnswer("error", 190, "none")}

FewUidAnswers ==
    {UidAnswer("ok", 0, "none"), UidAnswer("error", 803, "none"), UidAnswer("error", 190, "none")}

\* Requests a behaviour of SpecUid makes at most.
MaxNow == 3

\* SpecUid: the ticks of check_all_uids against manual checks, two tenants.
InitUid ==
    /\ state = UidStore([c1 |-> <<"u1", "u2">>, c2 |-> <<"u3">>])
    /\ disk = state.users
    /\ IdleRest

NextUid ==
    \/ ChkSnapshot
    \/ ChkFetch(FewUidAnswers, MaxNow)
    \/ ChkApply
    \/ ChkSend({TRUE})
    \/ ChkDone
    \/ \E c \in {"c1", "c2"} : ManStart(c)
    \/ ManFetch(FewUidAnswers, MaxNow)
    \/ ManApply

SpecUid == InitUid /\ [][NextUid]_vars

\* Requests a behaviour of SpecFive makes at most.
MaxNowFive == 8

\* SpecFive: the ticks of check_all_uids over one tenant with five identities.
InitFive ==
    /\ state = UidStore([c1 |-> <<"u1", "u2", "u3", "u4", "u5">>])
    /\ disk = state.users
    /\ IdleRest

NextFive ==
    \/ ChkSnapshot
    \/ ChkFetch(SomeUidAnswers, MaxNowFive)
    \/ ChkApply
    \/ ChkSend({TRUE})
    \/ ChkDone

SpecFive == InitFive /\ [][NextFive]_vars

\* Deaths of the process in a behaviour of SpecStore, and its requests.
MaxCrashes == 1
MaxStoreNow == 1
\* Commands and jobs a behaviour of SpecStore starts at most.
MaxStarts == 4

\* SpecStore: the handlers and the two jobs on the store, step by step, and the
\* death of the process at any step.
InitStore ==
    /\ state = [users |-> EmptyDict]
    /\ disk = EmptyDict
    /\ IdleRest

NextStore ==
    \/ \E op \in HandlerOps : StartHandler(op, "c1", MaxStarts)
    \/ \E t \in {"chk", "mon"} : StartJob(t, MaxStarts)
    \/ \E t \in Tasks : Acquire(t)
    \/ \E t \in Tasks : Mutate(t)
    \/ \E t \in Tasks : WriteOpen(t)
    \/ \E t \in Tasks : WriteClose(t)
    \/ \E t \in Tasks : Rename(t)
    \/ \E t \in Tasks : ReplyLocked(t)
    \/ \E t \in Tasks : Release(t)
    \/ \E t \in Tasks : Reply(t)
    \/ \E ok \in BOOLEAN : PageInfo(ok)
    \/ UidsChecked(FewUidAnswers, MaxStoreNow)
    \/ PostsFetched
    \/ Crash(MaxCrashes)

SpecStore == InitStore /\ [][NextStore]_vars

\* SpecPosts: ticks over two watched posts of a page, with ticks that end early.
PostsKeys == {"k1", "k4"}

InitPosts ==
    /\ state = StoreOf([DefaultAuto EXCEPT !.delete_keywords = {"spam"}], PostIds)
    /\ disk = state.users
    /\ IdleRest

NextPosts ==
    \/ Tick(AnswersOver(PostsKeys, MaxExecPage), {AllOk, AllFail})
    \/ MonAbort

SpecPosts == InitPosts /\ [][NextPosts]_vars

\* SpecGrow: ticks on one post whose feed grows between and during the polls.
\* A fetch times out or returns the first page of the feed as it is.
GrowPost == <<"c1", "pg", "p1">>

InitGrow ==
    /\ state = StoreWith(DefaultAuto)
    /\ disk = state.users
    /\ IdleRest

NextGrow ==
    \/ \E k \in FeedKeys : Emit(GrowPost, k)
    \/ Tick({Answer("timeout", <<>>), Answer("ok", comments_page(feed[GrowPost]))}, {AllOk})

SpecGrow == InitGrow /\ [][NextGrow]_vars

\* Requests the identity watcher makes at most in a behaviour of SpecSend.
MaxNowSend == 2

SendKeys == {"k1", "k4"}

\* SpecSend: both jobs for one tenant with a watched post and an identity,
\* every delivery succeeding or failing.
InitSend ==
    /\ state = [users |-> [c \in Chats |->
                  [token |-> "tok", uids |-> <<NewUidMeta("u1", "")>>,
                   pages |-> StoreWith(DefaultAuto).users[c].pages]]]
    /\ disk = state.users
    /\ IdleRest

NextSend ==
    \/ TickSends(AnswersOver(SendKeys, MaxExecPage), {AllOk}, BOOLEAN)
    \/ ChkSnapshot
    \/ ChkFetch(FewUidAnswers, MaxNowSend)
    \/ ChkApply
    \/ ChkSend(BOOLEAN)
    \/ ChkDone

SpecSend == InitSend /\ [][NextSend]_vars

\* SpecTpl: ticks alone under the reply templates that fail to render, with and
\* without block keywords.
FailingTemplates == {"Hi {user}", RaisingTemplate}

InitTpl ==
    /\ \E t \in FailingTemplates, b \in {{}, {"spam"}} :
         state = StoreWith([DefaultAuto EXCEPT !.message_template = t, !.block_keywords = b])
    /\ disk = state.users
    /\ IdleRest

NextTpl == Tick(AnswersOver(ExecKeys, MaxExecPage), {AllOk, AllFail})

SpecTpl == InitTpl /\ [][NextTpl]_vars

\* SpecLoad: the start of the process on every form of state file, and the
\* commands and ticks that follow it.
InitLoad ==
    /\ state = [users |-> EmptyDict]
    /\ disk \in {EmptyDict, StoreWith(DefaultAuto).users, UidStore([c1 |-> <<"u1">>]).users}
    /\ boot \in [form : FileForms, store : {"unloaded"}, raised : {FALSE}]
    /\ IdleJobs

NextLoad ==
    \/ Startup
    \/ CommandRaises
    \/ \E pk \in RacePosts : boot.store \in {"file", "empty"} /\ AddPage(pk[1], pk[2], "tok")
    \/ \E pk \in RacePosts :
         boot.store \in {"file", "empty"} /\ WatchPost(pk[1], pk[2], pk[3])
    \/ boot.store \in {"file", "empty"} /\ Tick(AnswersOver({"k1"}, MaxExecPage), {AllOk})

SpecLoad == InitLoad /\ [][NextLoad]_vars

\* Requests the identity watcher makes at most in a behaviour of SpecTenants.
MaxNowTenants == 2

\* SpecTenants: two tenants, each with a token, an identity and the page pg with
\* the post p1 under watch; their commands that register again what is stored,
\* against both jobs.
InitTenants ==
    /\ state = [users |-> [c \in Tenants |->
                  [token |-> "tok", uids |-> <<NewUidMeta("u1", "")>>,
                   pages |-> StoreWith(DefaultAuto).users["c1"].pages]]]
    /\ disk = state.users
    /\ IdleRest

NextTenants ==
    \/ \E c \in Tenants : AddUid(c, "u1", "mine")
    \/ \E c \in Tenants : AddPage(c, "pg", "tok2")
    \/ \E c \in Tenants : WatchPost(c, "pg", "p1")
    \/ Tick({Answer("ok", <<"k1">>)}, {AllOk})
    \/ ChkSnapshot
    \/ ChkFetch({UidAnswer("error", 803, "none")}, MaxNowTenants)
    \/ ChkApply
    \/ ChkSend({TRUE})
    \/ ChkDone

SpecTenants == InitTenants /\ [][NextTenants]_vars

\* ------------------------------------------------------------------ claims
\* What the formulas read of a tick.
SnapMeta(pk) == PostMeta(mon.users, pk)

SnapTime(pk) == fromisoformat(SnapMeta(pk).last_comment_time)

Created(k) == parse_fb_time(Comment(k).created_time)

\* The posts of the running tick whose fetch has returned a page.
Fetched == {pk \in DOMAIN mon.pages : mon.pages[pk].kind = "ok"}

FetchedKeys(pk) == Range(mon.pages[pk].data)

\* The comments the tick has processed for the post pk.
ProcessedKeys(pk) ==
    {mon.notifications[i].key :
        i \in {j \in DOMAIN mon.notifications :
                 mon.notifications[j].kind = "comment" /\ mon.notifications[j].post = pk[3]}}

IdsOf(keys) == {Comment(k).id : k \in keys} \ {None}

StoredTime(users, pk) ==
    IF Watched(users, pk) THEN fromisoformat(PostMeta(users, pk).last_comment_time) ELSE 0

\* C1: once a comment of a watched post has been processed by a tick, no later
\* tick processes the same comment id again while the post stays watched: the ids
\* a step adds to the processed comments of a post are none of those processed
\* before for that post since it was last put under watch.
C1_NoReprocess ==
    [][\A pk \in PostKeys :
         (ProcessedIds(mon'.notifications, pk) \ ProcessedIds(mon.notifications, pk))
             \cap seen[pk] = {}]_vars

\* A later tick has fetched a comment that an earlier tick processed, and has
\* skipped it.
C1_Witness ==
    /\ mon.pc = "fetch"
    /\ \E pk \in Fetched :
         /\ Watched(state.users, pk)
         /\ (IdsOf(FetchedKeys(pk)) \cap seen[pk]) \ IdsOf(ProcessedKeys(pk)) # {}

\* C2 as stated: the instant stored by a cursor update of a post is never below
\* the instant stored by the update before it, whatever happened in between.
C2_MonotonicUpdates ==
    [][\A pk \in PostKeys : lastUpd'[pk] >= lastUpd[pk]]_vars

\* C2, amended: while a post stays watched, its stored last_comment_time never
\* decreases.
C2_MonotonicWhileWatched ==
    [][\A pk \in PostKeys :
         (Watched(state.users, pk) /\ Watched(state'.users, pk))
             => StoredTime(state'.users, pk) >= StoredTime(state.users, pk)]_vars

\* A merge has moved the cursor of a watched post forward from a stored instant.
C2_Witness ==
    /\ mon.pc = "send"
    /\ mon.wrote
    /\ \E pk \in DOMAIN mon.updates :
         /\ Watched(mon.users, pk)
         /\ SnapTime(pk) # 0
         /\ StoredTime(state.users, pk) > SnapTime(pk)

\* C3: after a tick has processed new comments of a post and the cursor instant
\* has advanced, the stored last_comment_ids are exactly the ids of the fetched
\* comments created at the new last_comment_time.
C3_IdsReplaced ==
    \A pk \in Fetched :
        (/\ mon.pc = "send"
         /\ pk \in DOMAIN mon.updates
         /\ mon.wrote
         /\ Watched(state.users, pk)
         /\ ProcessedKeys(pk) # {}
         /\ StoredTime(state.users, pk) > SnapTime(pk))
        => PostMeta(state.users, pk).last_comment_ids =
               IdsOf({k \in FetchedKeys(pk) : Created(k) = StoredTime(state.users, pk)})

\* The comments of the page at the instant T.
KeysAt(pk, T) == {k \in FetchedKeys(pk) : Created(k) = T}

\* C4: of the fetched comments at the stored cursor instant T, exactly those whose
\* id is not in the stored id set are new; and when the page holds no later
\* comment, the update is T with the stored ids and the new ids together.
C4_TieHandling ==
    \A pk \in Fetched :
        LET T == SnapTime(pk)
            stored == StoredIds(SnapMeta(pk))
            newAtT == {k \in KeysAt(pk, T) : Comment(k).id \notin stored}
        IN (T # 0 /\ KeysAt(pk, T) # {})
           => /\ ProcessedKeys(pk) \cap KeysAt(pk, T) = newAtT
              /\ (\A k \in FetchedKeys(pk) : Created(k) <= T)
                 => /\ pk \in DOMAIN mon.updates
                    /\ fromisoformat(mon.updates[pk].last_comment_time) = T
                    /\ mon.updates[pk].last_comment_ids = stored \cup IdsOf(newAtT)

\* Stored {A} at T and a page of A, B and C, all at T: B and C are new and the
\* update is T with {A, B, C}.
C4_Witness ==
    \E pk \in Fetched :
        /\ SnapTime(pk) = 1
        /\ StoredIds(SnapMeta(pk)) = {"A"}
        /\ FetchedKeys(pk) = {"k1", "k2", "k3"}
        /\ ProcessedKeys(pk) = {"k2", "k3"}
        /\ mon.updates[pk].last_comment_ids = {"A", "B", "C"}

\* The classification in the words of the claim.
SkippedByRule(meta, k) ==
    LET T == fromisoformat(meta.last_comment_time)
    IN \/ Created(k) = 0
       \/ (T # 0 /\ Created(k) < T)
       \/ (T # 0 /\ Created(k) = T /\ Comment(k).id \in StoredIds(meta))

\* C5: a fetched comment is skipped when its created time is before the cursor,
\* when it is at the cursor and its id is stored, and when it has no parseable
\* created time; every other comment is new.  The update is made of the cursor
\* and the new comments only, so a comment without a created time never changes it.
C5_Classification ==
    \A pk \in Fetched :
        LET new == {k \in FetchedKeys(pk) : ~SkippedByRule(SnapMeta(pk), k)}
        IN /\ ProcessedKeys(pk) = new
           /\ pk \in DOMAIN mon.updates
              => /\ fromisoformat(mon.updates[pk].last_comment_time)
                       \in {SnapTime(pk)} \cup {Created(k) : k \in new}
                 /\ mon.updates[pk].last_comment_ids
                       \subseteq StoredIds(SnapMeta(pk)) \cup IdsOf(new)
           /\ (new = {} /\ SnapTime(pk) = 0) => pk \notin DOMAIN mon.updates

\* A page with a comment of each kind: one before the cursor, one at the cursor
\* with a stored id, one new; and a page with a comment without a created time.
C5_Witness ==
    \E pk \in Fetched :
        /\ SnapTime(pk) = 2
        /\ FetchedKeys(pk) = {"k1", "k4", "k5"}
        /\ ProcessedKeys(pk) = {"k5"}

\* C6: a tick in which no fetched comment is new writes nothing: neither the
\* cursor of a post nor the state file.
C6_NoWriteWithoutNew ==
    (/\ mon.pc = "send"
     /\ \A pk \in PostKeys : ProcessedKeys(pk) = {})
    => ~mon.wrote

\* The messages of the tick that report a comment, and the policy they ran under.
CommentMessages ==
    {i \in DOMAIN mon.notifications : mon.notifications[i].kind = "comment"}

SnapAuto(post_id) ==
    LET pk == CHOOSE x \in PostKeys : x[3] = post_id /\ Watched(mon.users, x)
    IN mon.users[pk[1]].pages[pk[2]].auto

Issued(m, action) == \E i \in DOMAIN m.actions : m.actions[i].action = action

Succeeded(m, action) ==
    \E i \in DOMAIN m.actions : m.actions[i].action = action /\ m.actions[i].ok

MatchesBoth(m) ==
    /\ comment_matches(Comment(m.key).message, SnapAuto(m.post).delete_keywords)
    /\ comment_matches(Comment(m.key).message, SnapAuto(m.post).hide_keywords)

\* C7 as stated: a new comment whose text matches a delete keyword and a hide
\* keyword gets a delete action and neither a hide nor a like action.
C7_DeleteOnly ==
    \A i \in CommentMessages :
        LET m == mon.notifications[i]
        IN MatchesBoth(m)
           => Issued(m, "delete") /\ ~Issued(m, "hide") /\ ~Issued(m, "like")

\* C7, amended: such a comment gets a delete action; when the delete call
\* succeeds it gets neither a hide nor a like action; when the delete call fails
\* it gets the hide action, and the like action if auto like is on.
C7_DeleteThenShortCircuit ==
    \A i \in CommentMessages :
        LET m == mon.notifications[i]
        IN MatchesBoth(m)
           => /\ Issued(m, "delete")
              /\ Succeeded(m, "delete") => ~Issued(m, "hide") /\ ~Issued(m, "like")
              /\ ~Succeeded(m, "delete")
                 => Issued(m, "hide") /\ (Issued(m, "like") <=> SnapAuto(m.post).like)

\* A comment matching both lists, under auto like, whose delete succeeded.
C7_Witness ==
    \E i \in CommentMessages :
        LET m == mon.notifications[i]
        IN MatchesBoth(m) /\ SnapAuto(m.post).like /\ Succeeded(m, "delete")

Rank(action) ==
    CASE action = "delete" -> 1
      [] action = "hide" -> 2
      [] action = "like" -> 3
      [] action = "block" -> 4
      [] OTHER -> 5

\* C8: the actions of a new comment are reported in the order delete, hide, like,
\* block, reply, each at most once and the comment at most once in the tick; and
\* after a delete that succeeded, neither hide nor like is issued.
C8_OrderedOnce ==
    \A i \in CommentMessages :
        LET m == mon.notifications[i]
        IN /\ \A a, b \in DOMAIN m.actions :
                a < b => Rank(m.actions[a].action) < Rank(m.actions[b].action)
           /\ Succeeded(m, "delete") => ~Issued(m, "hide") /\ ~Issued(m, "like")
           /\ \A j \in CommentMessages :
                (mon.notifications[j].key = m.key /\ mon.notifications[j].post = m.post)
                    => j = i

\* A comment on which the five actions were all issued (the delete failed).
C8_Witness ==
    \E i \in CommentMessages : Len(mon.notifications[i].actions) = Cardinality(ActionNames)

\* The identities of `uids` that follow, in the loop's order, one whose result in
\* `results` is a token_error.
AfterTokenError(order, results) ==
    {order[j] : j \in {k \in DOMAIN order :
        \E i \in DOMAIN order :
            i < k /\ order[i] \in DOMAIN results /\ results[order[i]].status = "token_error"}}

SnapUidOrder(chat_id) ==
    [i \in DOMAIN chk.users[chat_id].uids |-> chk.users[chat_id].uids[i].uid]

\* No request has been made for an identity that follows a token_error, in a tick
\* and in a manual check; and past its scan, a tick has visited every tenant with
\* a token and identities, and past its merges it has merged each of them.
NoRequestAfterTokenError ==
    /\ \A c \in DOMAIN chk.updates :
         AfterTokenError(SnapUidOrder(c), chk.updates[c]) \cap DOMAIN chk.updates[c] = {}
    /\ AfterTokenError(man.selected, man.results) \cap DOMAIN man.results = {}
    /\ (chk.pc \in {"apply", "send"})
       => \A i \in DOMAIN chk.plan :
            /\ chk.plan[i] \in DOMAIN chk.updates
            /\ SnapUidOrder(chk.plan[i])[1] \in DOMAIN chk.updates[chk.plan[i]]
    /\ (chk.pc = "send") => chk.applied = Len(chk.plan)

\* A merge of results leaves the identities without a result as they were.
MergeKeepsTheRest(chat_id, results) ==
    /\ DOMAIN state'.users[chat_id].uids = DOMAIN state.users[chat_id].uids
    /\ \A i \in DOMAIN state.users[chat_id].uids :
         state.users[chat_id].uids[i].uid \notin DOMAIN results
            => state'.users[chat_id].uids[i] = state.users[chat_id].uids[i]

\* C9: once an identity of a tenant is observed as token_error, the tick (and a
\* manual check) requests none of the tenant's remaining identities, its merge
\* leaves their stored record (status, summary, last_checked) unchanged, and the
\* tenants that follow are still visited and merged.
C9_TokenErrorShortCircuit ==
    [][/\ NoRequestAfterTokenError'
       /\ (chk'.applied = chk.applied + 1)
          => MergeKeepsTheRest(chk.plan[chk'.applied], chk.updates[chk.plan[chk'.applied]])
       /\ (man.pc = "apply" /\ man'.pc = "idle")
          => MergeKeepsTheRest(man.chat, man.results)]_vars

\* A tick whose first observation of c1 was a token_error: u2 was not requested
\* and is stored as in the snapshot, and c2 was visited and merged.
C9_Witness ==
    /\ chk.pc = "send"
    /\ chk.updates["c1"]["u1"].status = "token_error"
    /\ "u2" \notin DOMAIN chk.updates["c1"]
    /\ "u3" \in DOMAIN chk.updates["c2"]
    /\ state.users["c1"].uids[2] = chk.users["c1"].uids[2]
    /\ state.users["c2"].uids[1].last_checked = chk.updates["c2"]["u3"].checked_at

\* The scan of the tick is over and its second observation of c1 was a
\* token_error.
SecondIsTokenError ==
    /\ chk.pc \in {"apply", "send"}
    /\ "u2" \in DOMAIN chk.updates["c1"]
    /\ chk.updates["c1"]["u2"].status = "token_error"

\* C10 as stated: five identities under one token and a token_error at the
\* second observation give one notification, that of the second identity.
C10_ExactlyOne ==
    SecondIsTokenError => chk.notifications = <<UidNotice("c1", "token_error", "u2")>>

\* C10, amended: they give one token_error notification, that of the second
\* identity, none for the third to the fifth, which are not requested, and before
\* it a change notification for the first identity exactly when its observed
\* status or summary differs from the stored one.
C10_OneTokenNotice ==
    SecondIsTokenError =>
        LET meta == chk.users["c1"].uids[1]
            res == chk.updates["c1"]["u1"]
        IN /\ chk.notifications =
                (IF meta.status # res.status \/ meta.summary # res.summary
                 THEN <<UidNotice("c1", "changed", "u1")>> ELSE <<>>)
                    \o <<UidNotice("c1", "token_error", "u2")>>
           /\ DOMAIN chk.updates["c1"] = {"u1", "u2"}

\* A tick with a token_error at the second observation and the first identity
\* observed as stored: one notification.
C10_Witness ==
    /\ SecondIsTokenError
    /\ Len(chk.users["c1"].uids) = 5
    /\ Len(chk.notifications) = 1

\* The identities a running tick has a result for, as (tenant, index) pairs.
Observed ==
    {ci \in (DOMAIN chk.updates) \X (1..5) :
        /\ ci[2] \in DOMAIN chk.users[ci[1]].uids
        /\ chk.users[ci[1]].uids[ci[2]].uid \in DOMAIN chk.updates[ci[1]]}

SnapUid(ci) == chk.users[ci[1]].uids[ci[2]]

ObservedResult(ci) == chk.updates[ci[1]][SnapUid(ci).uid]

\* The tick has queued a notification about the identity.
Notified(ci) ==
    \E n \in DOMAIN chk.notifications :
        chk.notifications[n].chat = ci[1] /\ chk.notifications[n].uid = SnapUid(ci).uid

SameAsStored(ci) ==
    /\ SnapUid(ci).status = ObservedResult(ci).status
    /\ SnapUid(ci).summary = ObservedResult(ci).summary

\* C11: a tick queues a notification for an identity exactly when the observed
\* status or summary differs from the stored one; an observation identical to
\* the stored one, a repeated token_error included, queues none.
C11_NotifyIffDiffers ==
    \A ci \in Observed : Notified(ci) <=> ~SameAsStored(ci)

\* The result the tick merges for the stored identity `meta` of tenant c equals
\* what is stored.
Reobserved(c, meta) ==
    /\ meta.uid \in DOMAIN chk.updates[c]
    /\ meta.status = chk.updates[c][meta.uid].status
    /\ meta.summary = chk.updates[c][meta.uid].summary

\* The merge of tenant c by the tick, for the identities observed as stored:
\* no notification, last_checked moved to the observation, status and summary
\* kept; and no write of the file when every observation is as stored.
SilentMerge(c) ==
    LET uids == state.users[c].uids
        after == state'.users[c].uids
    IN /\ \A i \in DOMAIN uids :
            Reobserved(c, uids[i])
               => /\ ~Notified(<<c, i>>)
                  /\ after[i].last_checked = chk.updates[c][uids[i].uid].checked_at
                  /\ after[i].status = uids[i].status
                  /\ after[i].summary = uids[i].summary
       /\ (\A i \in DOMAIN uids :
              uids[i].uid \in DOMAIN chk.updates[c] => Reobserved(c, uids[i]))
          => disk' = disk

\* C12: an identity observed with the stored status and summary gets no
\* notification, its last_checked becomes the observation time, its status and
\* summary stay, and the state file is not written for it.
C12_SilentNoChange ==
    [][(chk'.applied = chk.applied + 1) => SilentMerge(chk.plan[chk'.applied])]_vars

\* The process died and started again in this step.
Died == crashes' = crashes + 1

\* A step of _write_state_locked before its rename.
BeforeRename ==
    \E t \in Tasks : task[t].pc \in {"write", "writing"} /\ task'[t].pc \in {"writing", "rename"}

\* C13: the state file never holds a partial document; the steps of
\* _write_state_locked before the rename leave it as it is; and a death of the
\* process at any step leaves it as it is, the next _load_state returning the
\* state it held.
C13_AtomicReplace ==
    [][/\ ~torn'
       /\ BeforeRename => disk' = disk
       /\ Died => (disk' = disk /\ state'.users = disk)]_vars

\* The process died between the write of the temporary file and the rename: the
\* complete temporary file is left behind, and the state loaded is the one the
\* state file held before, not the one being written.
C13_Witness ==
    /\ crashes = 1
    /\ tmp.exists /\ tmp.complete
    /\ disk # EmptyDict
    /\ tmp.users # disk
    /\ state.users = disk
    /\ ~torn

\* C14: whenever a task that changed the state in memory releases the lock, the
\* state file equals the state in memory.
C14_PersistBeforeRelease ==
    [][\A t \in Tasks :
          (t \in lock /\ t \notin lock' /\ ~Died /\ task[t].dirty)
             => disk' = state'.users]_vars

\* The task whose step this is holds the lock.
ActorHoldsLock == \E t \in lock : task'[t].pc # task[t].pc

\* The copy of snapshot_users: taken by a holder of the lock, of the state as it
\* is, while no other task stands inside a block that changes it.
SnapshotIsWhole(t) ==
    /\ t \in lock
    /\ task'[t].users = state.users
    /\ \A u \in Tasks \ {t} : task[u].pc \notin {"locked", "write", "writing", "rename"}

\* C15: past the start of the process, every change of the state in memory and
\* every write to the files is a step of a task that holds state_lock, at most
\* one task holds it, and snapshot_users copies, under the lock, a state no
\* task is in the middle of changing.
C15_Serialized ==
    [][/\ Cardinality(lock') <= 1
       /\ ((state' # state \/ disk' # disk \/ tmp' # tmp \/ torn' # torn) /\ ~Died)
             => ActorHoldsLock
       /\ \A t \in Tasks :
            (task[t].op = "snapshot_users" /\ task[t].pc = "locked" /\ ~Died)
               => SnapshotIsWhole(t)]_vars

\* A job waits for the lock that the handler holds across its reply, after the
\* handler changed the state and wrote it.
C15_Witness ==
    /\ lock = {"handler"}
    /\ task["handler"].pc = "reply_locked"
    /\ task["handler"].dirty
    /\ disk = state.users
    /\ \E t \in {"chk", "mon"} : task[t].pc = "acquire"

\* C16: no task that holds state_lock waits for the network, an upstream
\* request or a reply to the chat.
C16_NoNetworkUnderLock ==
    \A t \in lock : task[t].pc \notin {"net", "reply", "reply_locked"}

\* The posts of the running tick whose fetch failed.
FailedPosts == {pk \in DOMAIN mon.pages : mon.pages[pk].kind \in FetchFailures}

\* A post whose fetch failed has no update queued and no comment processed.
FailedPostsSkipped ==
    \A pk \in FailedPosts : pk \notin DOMAIN mon.updates /\ ProcessedKeys(pk) = {}

\* The step is the merge of the tick.
MergeStep == mon.pc = "fetch" /\ mon'.pc = "send"

\* C17: a post whose fetch times out, fails or returns an error gets no update
\* and no moderation action, the merge leaves its stored cursor as it is, and
\* the tick reaches its merge with every post of its snapshot visited.
C17_FailedFetchSkipped ==
    [][/\ FailedPostsSkipped'
       /\ MergeStep =>
            /\ DOMAIN mon.pages = PostsToVisit(mon.users)
            /\ \A pk \in FailedPosts :
                 PostMeta(state'.users, pk) = PostMeta(state.users, pk)]_vars

\* The fetch of p1 timed out, its cursor is the one a former tick stored, and p2
\* was processed and its cursor stored.
C17_Witness ==
    LET p1 == <<"c1", "pg", "p1">>
        p2 == <<"c1", "pg", "p2">>
    IN /\ mon.pc = "send"
       /\ p1 \in DOMAIN mon.pages /\ mon.pages[p1].kind = "timeout"
       /\ PostMeta(state.users, p1).last_comment_time # <<>>
       /\ PostMeta(state.users, p1) = PostMeta(mon.users, p1)
       /\ ProcessedKeys(p2) # {}
       /\ PostMeta(state.users, p2).last_comment_time = mon.updates[p2].last_comment_time

\* C18: when a tick ends, however it ends, the cursor update of every post
\* whose comments it processed is in the state file.
C18_IndependentCommit ==
    [][(mon.pc # "idle" /\ mon'.pc = "idle")
          => \A pk \in DOMAIN mon.pages :
                ProcessedKeys(pk) # {}
                   => /\ pk \in DOMAIN mon.updates
                      /\ PostMeta(disk', pk).last_comment_time =
                            mon.updates[pk].last_comment_time]_vars

\* The comments of the post pk that were in its feed when the tick fetched it:
\* the feed up to the newest comment of the fetched page.
InFeedAtFetch(pk) ==
    LET data == mon.pages[pk].data
        top == CHOOSE i \in DOMAIN feed[pk] : feed[pk][i] = data[1]
    IN {feed[pk][i] : i \in 1..top}

\* C19: no comment posted between two polls is missed: once a tick whose fetch
\* of a watched post succeeded has merged, every comment that was in the feed
\* of the post at that fetch has been processed, by that tick or an earlier one.
C19_NoneMissed ==
    \A pk \in PostKeys :
        (/\ mon.pc = "send"
         /\ pk \in Fetched
         /\ mon.pages[pk].data # <<>>
         /\ Watched(state.users, pk))
        => IdsOf(InFeedAtFetch(pk)) \subseteq seen[pk]

\* The steps of the closing loops: one delivery attempt of either job.
MonSends == mon.pc = "send" /\ mon'.pc = "send" /\ mon' # mon

ChkSends == chk.pc = "send" /\ chk'.pc = "send" /\ chk' # chk

\* C20: a failed delivery is swallowed and never retried.  Every attempt of a
\* closing loop, delivered or not, moves on to the next notification and leaves
\* the merged state and the state file as they are; a tick ends only when each
\* of its notifications has had its attempt, and it ends idle, so that the job
\* starts its next tick.
C20_FailureSwallowed ==
    [][/\ MonSends => (mon'.sent = mon.sent + 1 /\ state' = state /\ disk' = disk)
       /\ ChkSends => (chk'.sent = chk.sent + 1 /\ state' = state /\ disk' = disk)
       /\ (mon.pc = "send" /\ mon'.pc # "send")
            => (mon.sent = Len(mon.notifications) /\ mon' = IdleMon)
       /\ (chk.pc = "send" /\ chk'.pc # "send")
            => (chk.sent = Len(chk.notifications) /\ chk' = IdleChk)]_vars

\* The first of two notifications of a tick failed and the second was attempted,
\* the tick's merge is in the store and in the file, and the tick runs after a
\* tick that had a failed delivery of its own.
C20_Witness ==
    /\ mon.pc = "send"
    /\ mon.failed = <<1>>
    /\ mon.sent = 2
    /\ Len(mon.notifications) = 2
    /\ mon.wrote
    /\ disk = state.users
    /\ dropped > Len(mon.failed) + Len(chk.failed)

\* The comment of the message m has a known author and ran under a reply
\* template that does not render.
RenderFails(m) ==
    /\ SnapAuto(m.post).message_template # ""
    /\ Comment(m.key).from.id # None
    /\ ~format_ok(SnapAuto(m.post).message_template)

\* C21: under a non-empty reply template that fails to render, a comment with a
\* known author is reported with its other actions as without a template and
\* then a failed reply for which no call was made; and the step that handles a
\* post never ends the tick: it keeps the notifications and the cursor updates
\* collected so far and goes on to the merge.
C21_RenderFailureReported ==
    [][/\ \A i \in CommentMessages :
            LET m == mon.notifications[i]
            IN RenderFails(m)
               => \E oks \in {AllOk, AllFail} :
                     m.actions =
                        ActionsTaken(Comment(m.key),
                                     [SnapAuto(m.post) EXCEPT !.message_template = ""], oks)
                            \o <<Taken("reply", FALSE, FALSE)>>
       /\ (mon.pc = "fetch" /\ mon.todo # {} /\ mon' # mon)
            => /\ mon'.pc = "fetch"
               /\ DOMAIN mon.updates \subseteq DOMAIN mon'.updates
               /\ Len(mon'.notifications) >= Len(mon.notifications)]_vars

\* C22: ensure_user is idempotent.  On a store without the chat id it adds a
\* tenant with an empty token, no identities and no pages and leaves the other
\* tenants as they are; on a store with the chat id it changes nothing; a second
\* call changes nothing after the first; and no step of the program removes a
\* tenant from the store.
C22_EnsureUserIdempotent ==
    [][/\ \A c \in Chats :
            LET once == ensure_user(state.users, c)
            IN /\ c \in DOMAIN once
               /\ ensure_user(once, c) = once
               /\ c \in DOMAIN state.users => once = state.users
               /\ c \notin DOMAIN state.users
                  => /\ once[c] = [token |-> "", uids |-> <<>>, pages |-> EmptyDict]
                     /\ \A d \in DOMAIN state.users : once[d] = state.users[d]
       /\ DOMAIN state.users \subseteq DOMAIN state'.users]_vars

\* A merge, which calls ensure_user, has run on a tenant that has a page with a
\* watched post, and the tenant still has them.
C22_Witness ==
    /\ mon.pc = "send"
    /\ mon.wrote
    /\ \E pk \in DOMAIN mon.updates : Watched(state.users, pk)

\* C23: _load_state completes on every form of state file; a file with a users
\* mapping is loaded as it is, and every other form (absent, unreadable, not
\* JSON, JSON without a top-level users mapping) gives the empty users mapping.
C23_LoadOrEmpty ==
    [][(boot.store = "unloaded" /\ boot'.store # "unloaded")
         => IF boot.form = "users_mapping"
            THEN boot'.store = "file" /\ state'.users = disk
            ELSE boot'.store = "empty" /\ state'.users = EmptyDict]_vars

\* C24: for every new comment the block of the author is issued if and only if
\* the author id is known and the text matches a block keyword, whatever the
\* delete, the hide and the like of the comment did; and it is a call upstream.
C24_BlockIndependent ==
    \A i \in CommentMessages :
        LET m == mon.notifications[i]
        IN /\ Issued(m, "block")
              <=> /\ Comment(m.key).from.id # None
                  /\ comment_matches(Comment(m.key).message, SnapAuto(m.post).block_keywords)
           /\ \A a \in DOMAIN m.actions : m.actions[a].action = "block" => m.actions[a].call

\* A comment that was deleted and whose author was blocked, and one whose text
\* matches a block keyword and whose author is unknown and was not blocked.
C24_Witness ==
    /\ \E i \in CommentMessages :
         LET m == mon.notifications[i]
         IN Succeeded(m, "delete") /\ Issued(m, "block")
    /\ \E i \in CommentMessages :
         LET m == mon.notifications[i]
         IN /\ Comment(m.key).from.id = None
            /\ comment_matches(Comment(m.key).message, SnapAuto(m.post).block_keywords)
            /\ ~Issued(m, "block")

\* The page fetched for the post pk came newest first.
NewestFirst(pk) ==
    LET data == mon.pages[pk].data
    IN \A i, j \in DOMAIN data : i < j => Created(data[i]) >= Created(data[j])

\* C25: within a tick the new comments of a post whose page came newest first
\* are processed, queued and sent oldest first: in the queue no comment stands
\* before an older comment of the same post, and the closing loop sends the
\* queue front to back.
C25_OldestFirst ==
    [][/\ \A pk \in Fetched :
            NewestFirst(pk)
            => \A i, j \in CommentMessages :
                 (/\ i < j
                  /\ mon.notifications[i].post = pk[3]
                  /\ mon.notifications[j].post = pk[3])
                 => Created(mon.notifications[i].key) <= Created(mon.notifications[j].key)
       /\ MonSends => mon'.sent = mon.sent + 1]_vars

\* A page that came newest first with new comments of two instants, queued the
\* older one first and sent.
C25_Witness ==
    /\ mon.pc = "send"
    /\ mon.sent = Len(mon.notifications)
    /\ \E pk \in Fetched :
         /\ NewestFirst(pk)
         /\ \E i, j \in CommentMessages :
              /\ i < j
              /\ mon.notifications[i].post = pk[3]
              /\ mon.notifications[j].post = pk[3]
              /\ Created(mon.notifications[i].key) < Created(mon.notifications[j].key)

\* C26: the merge of a tick re-creates nothing: a post that is not watched when
\* the merge starts (its tenant stopped watching it, or removed its page, while
\* the tick was in flight) is not watched after the merge.
C26_MergeKeepsUnwatched ==
    [][(mon.pc = "fetch" /\ mon'.pc = "send")
         => \A pk \in PostKeys :
              ~Watched(state.users, pk) => ~Watched(state'.users, pk)]_vars

\* C27: the stored last_checked of a tracked identity never moves backwards: no
\* merge replaces a stored observation by one that was made earlier.
C27_LastCheckedMonotonic ==
    [][\A c \in DOMAIN state.users :
         \A i \in DOMAIN state.users[c].uids :
            (c \in DOMAIN state'.users /\ i \in DOMAIN state'.users[c].uids
                /\ state'.users[c].uids[i].uid = state.users[c].uids[i].uid)
            => state'.users[c].uids[i].last_checked >= state.users[c].uids[i].last_checked]_vars

\* C28: registering again what is stored keeps its tracked state.  In every
\* store the program reaches, add_uid of a tracked identity changes its label
\* and nothing else, add_page of a stored page changes its token and nothing
\* else (policy and watched posts stay), and watch_post of a watched post
\* changes nothing; and a step that changes a label or the token of a stored
\* page changes nothing else in the store.
C28_ReRegisterKeeps ==
    [][/\ \A c \in DOMAIN state.users :
            LET user == state.users[c]
            IN /\ \A i \in DOMAIN user.uids : \A label \in {"", "mine"} :
                    add_uid(state.users, c, user.uids[i].uid, label).users
                        = [state.users EXCEPT ![c].uids[i].label = label]
               /\ \A p \in DOMAIN user.pages :
                    /\ \A t \in {"tok", "tok2"} :
                         add_page(state.users, c, p, t).users
                             = [state.users EXCEPT ![c].pages[p].token = t]
                    /\ \A q \in DOMAIN user.pages[p].posts :
                         watch_post(state.users, c, p, q).users = state.users
       /\ \A c \in DOMAIN state.users :
            /\ \A i \in DOMAIN state.users[c].uids :
                 (/\ c \in DOMAIN state'.users
                  /\ i \in DOMAIN state'.users[c].uids
                  /\ state'.users[c].uids[i].label # state.users[c].uids[i].label)
                 => state'.users
                        = [state.users EXCEPT
                             ![c].uids[i].label = state'.users[c].uids[i].label]
            /\ \A p \in DOMAIN state.users[c].pages :
                 (/\ HasPage(state'.users, c, p)
                  /\ state'.users[c].pages[p].token # state.users[c].pages[p].token)
                 => state'.users
                        = [state.users EXCEPT
                             ![c].pages[p].token = state'.users[c].pages[p].token]]_vars

\* A tenant whose identity has been observed and labelled again, and whose page
\* has a new token and its post with a stored cursor.
C28_Witness ==
    \E c \in DOMAIN state.users :
        /\ state.users[c].uids[1].label = "mine"
        /\ state.users[c].uids[1].status # "unknown"
        /\ state.users[c].uids[1].last_checked > 0
        /\ state.users[c].pages["pg"].token = "tok2"
        /\ state.users[c].pages["pg"].auto = DefaultAuto
        /\ fromisoformat(state.users[c].pages["pg"].posts["p1"].last_comment_time) > 0

\* The updates of the running tick that are the tenant d's.
UpdatesOf(d) == {pk \in DOMAIN mon.updates : pk[1] = d}

\* C29: tenants are isolated.  A command changes the record of at most one
\* tenant; the part of a monitor tick that handles a post queues messages to the
\* chat id of the post's tenant and records an update under that tenant's key
\* only; the merge gives each tenant what its own updates make of its own
\* record; an identity check queues its notice to the tenant of the identity and
\* a merge of results changes the record of that tenant alone.
C29_TenantsIsolated ==
    [][/\ (mon' = mon /\ chk' = chk)
            => Cardinality({d \in Tenants : state'.users[d] # state.users[d]}) <= 1
       /\ (mon.pc = "fetch" /\ mon'.pc = "fetch" /\ mon' # mon)
            => /\ state' = state
               /\ \A pk \in DOMAIN mon'.pages \ DOMAIN mon.pages :
                    /\ \A i \in DOMAIN mon'.notifications \ DOMAIN mon.notifications :
                         mon'.notifications[i].chat = pk[1]
                    /\ DOMAIN mon'.updates \ DOMAIN mon.updates \subseteq {pk}
       /\ (mon.pc = "fetch" /\ mon'.pc = "send")
            => \A d \in Tenants :
                 state'.users[d] = MergeAll(state.users, mon.updates, UpdatesOf(d))[d]
       /\ (chk.pc = "scan" /\ chk' # chk)
            => /\ state' = state
               /\ \A i \in DOMAIN chk'.notifications \ DOMAIN chk.notifications :
                    chk'.notifications[i].chat = chk.plan[chk.ci]
       /\ (chk.pc = "apply" /\ chk' # chk)
            => \A d \in Tenants \ {chk.plan[chk.applied + 1]} :
                 state'.users[d] = state.users[d]]_vars

\* The tick has queued a message to each of the two tenants and has merged, and
\* the first tenant alone has labelled its identity and changed its page token.
C29_Witness ==
    /\ mon.pc = "send"
    /\ mon.wrote
    /\ {mon.notifications[i].chat : i \in DOMAIN mon.notifications} = Tenants
    /\ state.users["c1"].uids[1].label = "mine"
    /\ state.users["c1"].pages["pg"].token = "tok2"
    /\ state.users["c2"].uids[1].label = ""
    /\ state.users["c2"].pages["pg"].token = "tok"

====
